---- MODULE Spec2Model ----
(***************************************************************************)
(* Model of package logger (src/logger.go): a process-wide leveled logger  *)
(* guarded by one mutex (logLock), and the CustomError wrapping helpers.   *)
(*                                                                         *)
(* A text is a sequence of string pieces (single characters, and whole     *)
(* pieces such as a prefix) whose concatenation is the text, so that       *)
(* formatting and the line layout of log.Logger.Output are computed.       *)
(* The default case of the switch in output (an unrecognized severity) is  *)
(* not modelled: every caller passes one of the four constants.            *)
(***************************************************************************)
EXTENDS Integers, Sequences, FiniteSets

VARIABLES
    defaultLogger,  \* the package variable: NilLogger or a Logger value
    logLock,        \* the package mutex: NoOne or the goroutine holding it
    sinks,          \* contents of every io.Writer: the sequence of chunks written
    closeLog,       \* sequence of sinks on which Close() was invoked, in order
    stderr,         \* os.Stderr: the close-failure reports
    process,        \* [state: running | exited | crashed, code: exit status]
    pc,             \* per goroutine: position in the function it executes
    call,           \* per goroutine: locals of the call in progress
    ncalls,         \* number of calls of the package's functions so far
    inits,          \* number of Init calls so far (address of the last Logger)
    initArgs,       \* history: the four handles of every Init call, by address
    calls,          \* history: per goroutine, what each of its calls was asked to do
    acq,            \* history: the calls in the order output() acquired logLock
    errv,           \* error helpers: the error value at hand
    made,           \* history: the function that built errv, and its argument
    shown           \* error helpers: the last Error() call and its result

vars == <<defaultLogger, logLock, sinks, closeLog, stderr, process, pc, call,
          ncalls, inits, initArgs, calls, acq, errv, made, shown>>

logVars == <<defaultLogger, logLock, sinks, closeLog, stderr, process, pc, call,
             ncalls, inits, initArgs, calls, acq>>

errVars == <<errv, made, shown>>

----------------------------------------------------------------------------
(* Bounds *)

NumProcs == 2
MaxCalls == 3

Procs == 1..NumProcs

NIL == "nil"

(* A nil *Logger: address 0. *)
NilLogger == [addr |-> 0]
NoOne == 0

----------------------------------------------------------------------------
(* severity, src/logger.go:12-19 *)

sInfo == 0
sWarning == 1
sError == 2
sFatal == 3

Severities == {sInfo, sWarning, sError, sFatal}

(* The io.Writer values the embedding program hands to Init. *)
Sinks == {"w1", "w2", "w3", "w4"}

(* Sinks whose Close() returns an error. *)
BrokenSinks == {"w2"}

(* Init's argument lists: four separate sinks, or one sink for all. *)
HandleChoices ==
    { <<"w1", "w2", "w3", "w4">>, <<"w1", "w1", "w1", "w1">> }

----------------------------------------------------------------------------
(* Text helpers *)

Last(s) == s[Len(s)]

Digit(d) == CASE d = 0 -> "0" [] d = 1 -> "1" [] d = 2 -> "2" [] d = 3 -> "3"
              [] d = 4 -> "4" [] d = 5 -> "5" [] d = 6 -> "6" [] d = 7 -> "7"
              [] d = 8 -> "8" [] d = 9 -> "9"

RECURSIVE Itoa(_)
Itoa(n) == IF n < 10 THEN <<Digit(n)>> ELSE Itoa(n \div 10) \o <<Digit(n % 10)>>

(* An operand of a print call: a Go string or a Go int. *)
Str(s) == [t |-> "string", v |-> s]
Num(n) == [t |-> "int", v |-> n]

(* %v of an operand: a string prints as itself, an int in decimal. *)
FormatValue(a) == IF a.t = "int" THEN Itoa(a.v) ELSE a.v

(* fmt.Sprint: the operands in their default format, with a space added    *)
(* between two operands when neither is a string.                          *)
RECURSIVE Sprint(_)
Sprint(v) ==
    IF v = <<>> THEN <<>>
    ELSE IF Len(v) = 1 THEN FormatValue(v[1])
    ELSE FormatValue(v[1])
         \o (IF v[1].t # "string" /\ v[2].t # "string" THEN <<" ">> ELSE <<>>)
         \o Sprint(Tail(v))

(* fmt's report of a verb applied to an operand of the wrong type. *)
BadVerb(verb, a) == <<"%!", verb, "(", a.t, "=">> \o FormatValue(a) \o <<")">>

(* One verb applied to one operand. *)
FormatVerb(verb, a) ==
    CASE verb = "v" -> FormatValue(a)
      [] verb = "d" -> IF a.t = "int" THEN Itoa(a.v) ELSE BadVerb(verb, a)
      [] verb = "s" -> IF a.t = "string" THEN a.v ELSE BadVerb(verb, a)
      [] OTHER -> BadVerb(verb, a)

RECURSIVE ExtraArgs(_)
ExtraArgs(v) ==
    IF v = <<>> THEN <<>>
    ELSE <<v[1].t, "=">> \o FormatValue(v[1])
         \o (IF Len(v) > 1 THEN <<", ">> ELSE <<>>) \o ExtraArgs(Tail(v))

(* fmt.Sprintf: format is a sequence of characters; every % takes the next *)
(* character as its verb and consumes the next operand.                    *)
RECURSIVE Sprintf(_, _)
Sprintf(format, v) ==
    IF format = <<>>
      THEN IF v = <<>> THEN <<>> ELSE <<"%!(EXTRA ">> \o ExtraArgs(v) \o <<")">>
    ELSE IF format[1] # "%" THEN <<format[1]>> \o Sprintf(Tail(format), v)
    ELSE IF Len(format) = 1 THEN <<"%!(NOVERB)">> \o Sprintf(<<>>, v)
    ELSE IF format[2] = "%" THEN <<"%">> \o Sprintf(Tail(Tail(format)), v)
    ELSE IF v = <<>>
      THEN <<"%!", format[2], "(MISSING)">> \o Sprintf(Tail(Tail(format)), v)
    ELSE FormatVerb(format[2], v[1]) \o Sprintf(Tail(Tail(format)), Tail(v))

(* The operand lists and formats the callers use. *)
PrintArgs ==
    { <<Str(<<"a">>)>>, <<Str(<<"b">>)>> }

FormatArgs ==
    { [format |-> <<"n", "=", "%", "d">>, v |-> <<Num(3)>>] }

----------------------------------------------------------------------------
(* log.Logger as used by the package *)

(* flags = Ldate | Ltime | Lshortfile: date, time and file:line of the     *)
(* caller, rendered as one opaque piece.                                   *)
flags == "<date> <time> <file>:<line>: "

(* log.New(out, prefix, flags) *)
LogNew(out, prefix) == [out |-> out, prefix |-> prefix]

(* The buffer log.Logger.Output builds: prefix, header, the text, and a    *)
(* newline unless the text already ends in one.                            *)
LogBuffer(lg, txt) ==
    <<lg.prefix, flags>> \o txt
    \o (IF txt = <<>> \/ Last(txt) # "\n" THEN <<"\n">> ELSE <<>>)

(* Faulty variant of LogFor: the warning case uses the info logger. *)
LogForWarningAsInfo(l, s) ==
    CASE s = sInfo -> l.infoLog
      [] s = sWarning -> l.infoLog
      [] s = sError -> l.errorLog
      [] s = sFatal -> l.fatalLog

(* The logger a severity selects: the switch of Logger.output. *)
LogFor(l, s) ==
    CASE s = sInfo -> l.infoLog
      [] s = sWarning -> l.warningLog
      [] s = sError -> l.errorLog
      [] s = sFatal -> l.fatalLog

(* The Logger value Init builds; closers and initialized keep their zero   *)
(* values. addr stands for the identity of the allocation.                 *)
NewLogger(addr, h) ==
    [addr |-> addr,
     infoLog |-> LogNew(h[1], "INFO: "),
     warningLog |-> LogNew(h[2], "WARNING: "),
     errorLog |-> LogNew(h[3], "ERROR: "),
     fatalLog |-> LogNew(h[4], "FATAL: "),
     closers |-> <<>>,
     initialized |-> FALSE]

(* c.Close() of a sink: nil or an error. *)
CloseErr(c) == IF c \in BrokenSinks THEN "close failed" ELSE NIL

----------------------------------------------------------------------------
(* sync.Mutex *)

(* Faulty variant of Lock: takes the mutex without waiting for it. *)
LockNoWait(p) == logLock' = p

Lock(p) == logLock = NoOne /\ logLock' = p

Unlock(p) == logLock' = NoOne

Running == process.state = "running"

(* The locals of a goroutine that is in no call. *)
NoCall == [k |-> 0, fn |-> "none", l |-> NilLogger, s |-> sInfo, txt |-> <<>>,
           buf |-> <<>>, closed |-> <<>>, events |-> <<>>]

IsFatal(fn) == fn \in {"Fatal", "Fatalf"}

----------------------------------------------------------------------------
(* CustomError, ErrorStruct, WrapError, Return *)

(* A nil error. *)
NoError == [kind |-> "none"]

(* An error of another package (errors.New(msg)). *)
PlainError(msg) == [kind |-> "plain", msg |-> msg]

(* The messages and the stack dumps (debug.Stack()) the helpers meet. *)
ErrMsgs == { <<>>, <<"e">>, <<"o", "o", "m">> }

Stacks == { "goroutine 1 [running]: main.f", "goroutine 7 [running]: main.g" }

(* func WrapError(messagef string) CustomError *)
WrapError(messagef, stack) ==
    [kind |-> "CustomError", Message |-> messagef, StackTrace |-> stack]

(* Faulty variant of CustomError.Error: the stack trace is appended. *)
CustomErrorErrorWithStack(err) == err.Message \o <<err.StackTrace>>

(* func (err CustomError) Error() string *)
CustomErrorError(err) == err.Message

(* e.Error() on an error value: the method of its dynamic type; ErrorStruct *)
(* has the method of the CustomError it embeds.                             *)
ErrorOf(e) ==
    CASE e.kind = "plain" -> e.msg
      [] e.kind = "CustomError" -> CustomErrorError(e)
      [] e.kind = "ErrorStruct" -> CustomErrorError(e.CustomError)

(* func Return(err error) error *)
Return(err, stack) ==
    [kind |-> "ErrorStruct", CustomError |-> WrapError(ErrorOf(err), stack)]

----------------------------------------------------------------------------
(* Init: the package state before the program calls anything. *)

Init ==
    /\ defaultLogger = NilLogger
    /\ logLock = NoOne
    /\ sinks = [w \in Sinks |-> <<>>]
    /\ closeLog = <<>>
    /\ stderr = <<>>
    /\ process = [state |-> "running", code |-> 0, by |-> NoOne]
    /\ pc = [p \in Procs |-> "idle"]
    /\ call = [p \in Procs |-> NoCall]
    /\ ncalls = 0
    /\ inits = 0
    /\ initArgs = <<>>
    /\ calls = [p \in Procs |-> <<>>]
    /\ acq = <<>>
    /\ errv = NoError
    /\ made = [op |-> "none", arg |-> NoError]
    /\ shown = [of |-> NoError, by |-> [op |-> "none", arg |-> NoError],
                msg |-> <<>>]

----------------------------------------------------------------------------
(* func Init(infoHandle, warningHandle, errorHandle, fatalHandle)          *)
(* One unsynchronized store to defaultLogger; a concurrent reader sees the *)
(* old or the new pointer.                                                 *)

(* Faulty variant of Init: an existing instance is kept (first call wins). *)
InitLoggerOnce(h) ==
    /\ Running
    /\ ncalls < MaxCalls
    /\ ncalls' = ncalls + 1
    /\ inits' = inits + 1
    /\ defaultLogger' = IF defaultLogger.addr = 0
                          THEN NewLogger(inits + 1, h) ELSE defaultLogger
    /\ initArgs' = Append(initArgs, h)
    /\ UNCHANGED <<logLock, sinks, closeLog, stderr, process, pc, call,
                   calls, acq, errVars>>

InitLogger(h) ==
    /\ Running
    /\ ncalls < MaxCalls
    /\ ncalls' = ncalls + 1
    /\ inits' = inits + 1
    /\ defaultLogger' = NewLogger(inits + 1, h)
    /\ initArgs' = Append(initArgs, h)
    /\ UNCHANGED <<logLock, sinks, closeLog, stderr, process, pc, call,
                   calls, acq, errVars>>

InitCall == \E h \in HandleChoices : InitLogger(h)

----------------------------------------------------------------------------
(* The logging functions: evaluate defaultLogger, format the operands and  *)
(* enter Logger.output.                                                       *)

StartOutput(p, fn, s, txt) ==
    /\ Running
    /\ pc[p] = "idle"
    /\ ncalls < MaxCalls
    /\ ncalls' = ncalls + 1
    /\ call' = [call EXCEPT ![p] =
                  [NoCall EXCEPT !.k = Len(calls[p]) + 1, !.fn = fn,
                                 !.l = defaultLogger, !.s = s, !.txt = txt]]
    /\ calls' = [calls EXCEPT ![p] =
                   Append(@, [fn |-> fn, s |-> s, txt |-> txt, gen |-> inits])]
    /\ pc' = [pc EXCEPT ![p] = "output_lock"]
    /\ UNCHANGED <<defaultLogger, logLock, sinks, closeLog, stderr, process,
                   inits, initArgs, acq, errVars>>

Info(p) == \E v \in PrintArgs : StartOutput(p, "Info", sInfo, Sprint(v))

Infof(p) ==
    \E f \in FormatArgs : StartOutput(p, "Infof", sInfo, Sprintf(f.format, f.v))

Warning(p) == \E v \in PrintArgs : StartOutput(p, "Warning", sWarning, Sprint(v))

Warningf(p) ==
    \E f \in FormatArgs :
        StartOutput(p, "Warningf", sWarning, Sprintf(f.format, f.v))

Error(p) == \E v \in PrintArgs : StartOutput(p, "Error", sError, Sprint(v))

Errorf(p) ==
    \E f \in FormatArgs : StartOutput(p, "Errorf", sError, Sprintf(f.format, f.v))

Fatal(p) == \E v \in PrintArgs : StartOutput(p, "Fatal", sFatal, Sprint(v))

Fatalf(p) ==
    \E f \in FormatArgs : StartOutput(p, "Fatalf", sFatal, Sprintf(f.format, f.v))

----------------------------------------------------------------------------
(* func (l *Logger) output(s, depth, txt) *)

(* logLock.Lock() *)
OutputLock(p) ==
    /\ Running
    /\ pc[p] = "output_lock"
    /\ Lock(p)
    /\ acq' = Append(acq, <<p, call[p].k>>)
    /\ pc' = [pc EXCEPT ![p] = "output_switch"]
    /\ UNCHANGED <<defaultLogger, sinks, closeLog, stderr, process, call,
                   ncalls, inits, initArgs, calls, errVars>>

(* The switch and the start of <s>Log.Output: the buffer is built and its  *)
(* first part (prefix and header) reaches the sink. A Write on a shared    *)
(* io.Writer is not atomic, so the buffer arrives in two parts.            *)
OutputWriteHead(p) ==
    /\ Running
    /\ pc[p] = "output_switch"
    /\ call[p].l.addr # 0
    /\ LET lg == LogFor(call[p].l, call[p].s)
           buf == LogBuffer(lg, call[p].txt)
       IN /\ sinks' = [sinks EXCEPT ![lg.out] =
                          Append(@, [p |-> p, k |-> call[p].k,
                                     data |-> SubSeq(buf, 1, 2)])]
          /\ call' = [call EXCEPT ![p].buf = SubSeq(buf, 3, Len(buf))]
    /\ pc' = [pc EXCEPT ![p] = "output_write"]
    /\ UNCHANGED <<defaultLogger, logLock, closeLog, stderr, process, ncalls,
                   inits, initArgs, calls, acq, errVars>>

(* The rest of the buffer reaches the sink. *)
OutputWriteTail(p) ==
    /\ Running
    /\ pc[p] = "output_write"
    /\ LET lg == LogFor(call[p].l, call[p].s)
       IN sinks' = [sinks EXCEPT ![lg.out] =
                       Append(@, [p |-> p, k |-> call[p].k, data |-> call[p].buf])]
    /\ call' = [call EXCEPT ![p].buf = <<>>,
                            ![p].events = Append(@, "write")]
    /\ pc' = [pc EXCEPT ![p] = "output_unlock"]
    /\ UNCHANGED <<defaultLogger, logLock, closeLog, stderr, process, ncalls,
                   inits, initArgs, calls, acq, errVars>>

(* Faulty variant of OutputUnlock: Fatal and Fatalf keep the lock for      *)
(* their closing sequence.                                                 *)
OutputUnlockNotInFatal(p) ==
    /\ Running
    /\ pc[p] = "output_unlock"
    /\ IF IsFatal(call[p].fn)
         THEN /\ pc' = [pc EXCEPT ![p] = "fatal_close"]
              /\ call' = call
              /\ logLock' = logLock
         ELSE /\ pc' = [pc EXCEPT ![p] = "idle"]
              /\ call' = [call EXCEPT ![p] = NoCall]
              /\ Unlock(p)
    /\ UNCHANGED <<defaultLogger, sinks, closeLog, stderr, process, ncalls,
                   inits, initArgs, calls, acq, errVars>>

(* The deferred logLock.Unlock() and the return: to the caller of a        *)
(* non-fatal function, or into the rest of Fatal / Fatalf.                 *)
OutputUnlock(p) ==
    /\ Running
    /\ pc[p] = "output_unlock"
    /\ Unlock(p)
    /\ IF IsFatal(call[p].fn)
         THEN /\ pc' = [pc EXCEPT ![p] = "fatal_close"]
              /\ call' = call
         ELSE /\ pc' = [pc EXCEPT ![p] = "idle"]
              /\ call' = [call EXCEPT ![p] = NoCall]
    /\ UNCHANGED <<defaultLogger, sinks, closeLog, stderr, process, ncalls,
                   inits, initArgs, calls, acq, errVars>>

(* l is nil: l.infoLog (in output) or l.closers (in Close) dereferences    *)
(* nil while logLock is held; the deferred Unlock runs and the panic ends  *)
(* the process with status 2.                                              *)
NilPanic(p) ==
    /\ Running
    /\ pc[p] \in {"output_switch", "close_loop"}
    /\ call[p].l.addr = 0
    /\ Unlock(p)
    /\ process' = [state |-> "crashed", code |-> 2, by |-> p]
    /\ pc' = [pc EXCEPT ![p] = "panicked"]
    /\ UNCHANGED <<defaultLogger, sinks, closeLog, stderr, call, ncalls,
                   inits, initArgs, calls, acq, errVars>>

----------------------------------------------------------------------------
(* func (l *Logger) Close() *)

(* A call of defaultLogger.Close() from the program. *)
CloseCall(p) ==
    /\ Running
    /\ pc[p] = "idle"
    /\ ncalls < MaxCalls
    /\ ncalls' = ncalls + 1
    /\ call' = [call EXCEPT ![p] =
                  [NoCall EXCEPT !.k = Len(calls[p]) + 1, !.fn = "Close",
                                 !.l = defaultLogger]]
    /\ calls' = [calls EXCEPT ![p] =
                   Append(@, [fn |-> "Close", s |-> sInfo, txt |-> <<>>,
                              gen |-> inits])]
    /\ pc' = [pc EXCEPT ![p] = "close_lock"]
    /\ UNCHANGED <<defaultLogger, logLock, sinks, closeLog, stderr, process,
                   inits, initArgs, acq, errVars>>

(* Faulty variant of FatalClose: Fatal exits without closing. *)
FatalCloseSkipped(p) ==
    /\ Running
    /\ pc[p] = "fatal_close"
    /\ call' = [call EXCEPT ![p].l = defaultLogger]
    /\ pc' = [pc EXCEPT ![p] = "fatal_exit"]
    /\ UNCHANGED <<defaultLogger, logLock, sinks, closeLog, stderr, process,
                   ncalls, inits, initArgs, calls, acq, errVars>>

(* defaultLogger.Close() inside Fatal / Fatalf: defaultLogger is read anew. *)
FatalClose(p) ==
    /\ Running
    /\ pc[p] = "fatal_close"
    /\ call' = [call EXCEPT ![p].l = defaultLogger]
    /\ pc' = [pc EXCEPT ![p] = "close_lock"]
    /\ UNCHANGED <<defaultLogger, logLock, sinks, closeLog, stderr, process,
                   ncalls, inits, initArgs, calls, acq, errVars>>

(* Faulty variant of CloseLock: Close enters its loop without the lock. *)
CloseLockNoLock(p) ==
    /\ Running
    /\ pc[p] = "close_lock"
    /\ pc' = [pc EXCEPT ![p] = "close_loop"]
    /\ UNCHANGED <<defaultLogger, logLock, sinks, closeLog, stderr, process,
                   call, ncalls, inits, initArgs, calls, acq, errVars>>

(* logLock.Lock() *)
CloseLock(p) ==
    /\ Running
    /\ pc[p] = "close_lock"
    /\ Lock(p)
    /\ pc' = [pc EXCEPT ![p] = "close_loop"]
    /\ UNCHANGED <<defaultLogger, sinks, closeLog, stderr, process, call,
                   ncalls, inits, initArgs, calls, acq, errVars>>

(* The report written to os.Stderr for a failed close. *)
CloseReport(c, err) == <<"Failed to close log ", c, ": ", err, "\n">>

(* for _, c := range closers: the reports of the closes that fail. *)
RECURSIVE CloseReports(_)
CloseReports(closers) ==
    IF closers = <<>> THEN <<>>
    ELSE (IF CloseErr(closers[1]) # NIL
            THEN <<CloseReport(closers[1], CloseErr(closers[1]))>> ELSE <<>>)
         \o CloseReports(Tail(closers))

(* The whole loop over l.closers, run while logLock is held: every closer  *)
(* is closed in order, every failure reported, none stops the loop.        *)
CloseLoop(p) ==
    /\ Running
    /\ pc[p] = "close_loop"
    /\ call[p].l.addr # 0
    /\ closeLog' = closeLog \o call[p].l.closers
    /\ stderr' = stderr \o CloseReports(call[p].l.closers)
    /\ call' = [call EXCEPT ![p].closed = call[p].l.closers]
    /\ pc' = [pc EXCEPT ![p] = "close_unlock"]
    /\ UNCHANGED <<defaultLogger, logLock, sinks, process, ncalls, inits,
                   initArgs, calls, acq, errVars>>

(* Faulty variant of CloseUnlock: Close returns with the lock held. *)
CloseUnlockKeepsLock(p) ==
    /\ Running
    /\ pc[p] = "close_unlock"
    /\ IF IsFatal(call[p].fn)
         THEN /\ pc' = [pc EXCEPT ![p] = "fatal_exit"]
              /\ call' = [call EXCEPT ![p].events = Append(@, "close")]
         ELSE /\ pc' = [pc EXCEPT ![p] = "idle"]
              /\ call' = [call EXCEPT ![p] = NoCall]
    /\ UNCHANGED <<defaultLogger, logLock, sinks, closeLog, stderr, process,
                   ncalls, inits, initArgs, calls, acq, errVars>>

(* The deferred logLock.Unlock() and the return: to the caller of Close,   *)
(* or to os.Exit(1) in Fatal / Fatalf.                                     *)
CloseUnlock(p) ==
    /\ Running
    /\ pc[p] = "close_unlock"
    /\ Unlock(p)
    /\ IF IsFatal(call[p].fn)
         THEN /\ pc' = [pc EXCEPT ![p] = "fatal_exit"]
              /\ call' = [call EXCEPT ![p].events = Append(@, "close")]
         ELSE /\ pc' = [pc EXCEPT ![p] = "idle"]
              /\ call' = [call EXCEPT ![p] = NoCall]
    /\ UNCHANGED <<defaultLogger, sinks, closeLog, stderr, process, ncalls,
                   inits, initArgs, calls, acq, errVars>>

(* os.Exit(1) at the end of Fatal / Fatalf: the process is gone, and with  *)
(* it every goroutine.                                                     *)
FatalExit(p) ==
    /\ Running
    /\ pc[p] = "fatal_exit"
    /\ process' = [state |-> "exited", code |-> 1, by |-> p]
    /\ call' = [call EXCEPT ![p].events = Append(@, "exit")]
    /\ pc' = [pc EXCEPT ![p] = "exited"]
    /\ UNCHANGED <<defaultLogger, logLock, sinks, closeLog, stderr, ncalls,
                   inits, initArgs, calls, acq, errVars>>

----------------------------------------------------------------------------

Next ==
    \/ InitCall
    \/ \E p \in Procs :
        \/ Info(p) \/ Infof(p) \/ Warning(p) \/ Warningf(p)
        \/ Error(p) \/ Errorf(p) \/ Fatal(p) \/ Fatalf(p)
        \/ OutputLock(p) \/ OutputWriteHead(p) \/ OutputWriteTail(p)
        \/ OutputUnlock(p) \/ NilPanic(p)
        \/ CloseCall(p) \/ FatalClose(p) \/ CloseLock(p) \/ CloseLoop(p)
        \/ CloseUnlock(p) \/ FatalExit(p)

Spec == Init /\ [][Next]_vars

(* Scheduling: a goroutine that can take a step of a call in progress      *)
(* eventually takes it; sync.Mutex hands the lock to a goroutine that      *)
(* keeps waiting for it (starvation mode), hence strong fairness for Lock. *)
Fairness ==
    \A p \in Procs :
        /\ SF_vars(OutputLock(p) \/ CloseLock(p))
        /\ WF_vars(OutputWriteHead(p) \/ OutputWriteTail(p) \/ OutputUnlock(p)
                     \/ NilPanic(p) \/ FatalClose(p) \/ CloseLoop(p)
                     \/ CloseUnlock(p) \/ FatalExit(p))

FairSpec == Spec /\ Fairness

----------------------------------------------------------------------------
(* The error helpers, applied to errors drawn from ErrMsgs and Stacks. *)

(* An error arrives from elsewhere in the program. *)
NewError ==
    \E m \in ErrMsgs :
        /\ errv' = PlainError(m)
        /\ made' = [op |-> "New", arg |-> PlainError(m)]
        /\ UNCHANGED <<shown, logVars>>

WrapErrorCall ==
    \E m \in ErrMsgs, st \in Stacks :
        /\ errv' = WrapError(m, st)
        /\ made' = [op |-> "WrapError", arg |-> PlainError(m)]
        /\ UNCHANGED <<shown, logVars>>

(* Return(errv); Return(nil) dereferences nil and is not called. *)
ReturnCall ==
    \E st \in Stacks :
        /\ errv # NoError
        /\ errv' = Return(errv, st)
        /\ made' = [op |-> "Return", arg |-> errv]
        /\ UNCHANGED <<shown, logVars>>

(* errv.Error() *)
ErrorCall ==
    /\ errv # NoError
    /\ shown' = [of |-> errv, by |-> made, msg |-> ErrorOf(errv)]
    /\ UNCHANGED <<errv, made, logVars>>

ErrNext == NewError \/ WrapErrorCall \/ ReturnCall \/ ErrorCall

ErrSpec == Init /\ [][ErrNext]_vars

----------------------------------------------------------------------------
(* Vocabulary of the properties *)

(* p is between a logLock.Lock() and the matching Unlock(). *)
InCritical(p) ==
    pc[p] \in {"output_switch", "output_write", "output_unlock",
               "close_loop", "close_unlock"}

(* p is inside a call that has not returned. *)
Active(p) ==
    pc[p] \in {"output_lock", "output_switch", "output_write", "output_unlock",
               "fatal_close", "close_lock", "close_loop", "close_unlock",
               "fatal_exit"}

(* The k-th call of p is a logging call whose output() has written. *)
Written(p, k) ==
    /\ k \in 1..Len(calls[p])
    /\ calls[p][k].fn # "Close"
    /\ \/ k < Len(calls[p])
       \/ pc[p] \in {"idle", "output_unlock", "fatal_close", "close_lock",
                     "close_loop", "close_unlock", "fatal_exit", "exited"}

(* The positions of the chunks of p's k-th call in sink w. *)
ChunksOf(w, p, k) ==
    {i \in 1..Len(sinks[w]) : sinks[w][i].p = p /\ sinks[w][i].k = k}

PrefixOf(s) ==
    CASE s = sInfo -> "INFO: " [] s = sWarning -> "WARNING: "
      [] s = sError -> "ERROR: " [] s = sFatal -> "FATAL: "

(* The handle Init number gen received for severity s. *)
HandleOf(gen, s) == initArgs[gen][s + 1]

(* The position of call <<p, k>> in the acquisition order. *)
AcqPos(p, k) == CHOOSE i \in 1..Len(acq) : acq[i] = <<p, k>>

Range(f) == {f[i] : i \in DOMAIN f}

----------------------------------------------------------------------------
(* C1: after Init with four sinks, Close() closes every sink handed to     *)
(* Init, exactly once each, in the order info, warning, error, fatal: when *)
(* the loop of Close is over, the sinks it closed are Init's arguments.    *)
C1_CloseClosesEverySink ==
    \A p \in Procs :
        pc[p] = "close_unlock" =>
            call[p].closed = initArgs[call[p].l.addr]

(* C2: at most one goroutine is inside a sink write or the sink-closing    *)
(* loop, whatever the severities; no line is written into the middle of    *)
(* another: in every sink the chunks pair up, head then tail of one call,  *)
(* and a head without its tail is the last chunk, its writer still writing.*)
C2_OneWriterAtATime ==
    /\ \A p, q \in Procs : (p # q /\ InCritical(p)) => ~InCritical(q)
    /\ \A w \in Sinks : \A i \in 1..Len(sinks[w]) :
          i % 2 = 1 =>
              IF i < Len(sinks[w])
                THEN /\ sinks[w][i + 1].p = sinks[w][i].p
                     /\ sinks[w][i + 1].k = sinks[w][i].k
                ELSE /\ pc[sinks[w][i].p] = "output_write"
                     /\ call[sinks[w][i].p].k = sinks[w][i].k

(* Two goroutines of different severities: one is writing its line, the    *)
(* other waits for the lock.                                               *)
C2_Witness ==
    \E p, q \in Procs :
        /\ pc[p] = "output_write"
        /\ pc[q] = "output_lock"
        /\ call[p].s # call[q].s
        /\ LogFor(call[p].l, call[p].s).out = LogFor(call[q].l, call[q].s).out

(* C3: one call of the logging function of severity S with message M puts  *)
(* exactly one line into the sink Init bound to S, made of S's prefix, the *)
(* header and the formatted text of M, and nothing into any other sink;    *)
(* no level suppresses the write.                                          *)
C3_OneLineInItsSink ==
    \A p \in Procs : \A k \in 1..Len(calls[p]) :
        Written(p, k) =>
            LET c == calls[p][k]
                w == HandleOf(c.gen, c.s)
                at == ChunksOf(w, p, k)
            IN /\ c.gen >= 1
               /\ \A v \in Sinks \ {w} : ChunksOf(v, p, k) = {}
               /\ Cardinality(at) = 2
               /\ \E i \in at :
                     /\ i + 1 \in at
                     /\ sinks[w][i].data \o sinks[w][i + 1].data
                          = <<PrefixOf(c.s), flags>> \o c.txt \o <<"\n">>

(* Init with four separate sinks, then Warningf("n=%d", 3): the warning    *)
(* sink holds the one line, the other sinks are empty.                     *)
C3_Witness ==
    \E p \in Procs :
        /\ pc[p] = "idle"
        /\ Len(calls[p]) = 1
        /\ calls[p][1].fn = "Warningf"
        /\ initArgs = << <<"w1", "w2", "w3", "w4">> >>
        /\ Len(sinks["w2"]) = 2
        /\ sinks["w2"][1].data \o sinks["w2"][2].data
             = <<"WARNING: ", flags, "n", "=", "3", "\n">>
        /\ \A v \in Sinks \ {"w2"} : sinks[v] = <<>>

(* C4: Fatal and Fatalf write the line to the fatal sink, then run the     *)
(* closing sequence to its end, then end the process with status 1; once   *)
(* the process has ended nothing takes another step.                       *)
C4_FatalOrder ==
    /\ [][(process.state = "running" /\ process'.state = "exited") =>
            LET p == process'.by
            IN /\ IsFatal(call[p].fn)
               /\ call'[p].events = <<"write", "close", "exit">>
               /\ process'.code = 1
               /\ Written(p, call[p].k)
               /\ Cardinality(ChunksOf(
                      HandleOf(calls[p][call[p].k].gen, sFatal), p, call[p].k)) = 2
         ]_vars
    /\ [][process.state # "running" => UNCHANGED vars]_vars

(* A Fatal call has ended the process with status 1. *)
C4_Witness ==
    /\ process.state = "exited"
    /\ process.code = 1
    /\ \E p \in Procs : pc[p] = "exited" /\ call[p].fn = "Fatal"

(* C5: if closing a sink fails, Close still attempts every remaining sink  *)
(* and reports the failure on the diagnostic stream: when the loop of      *)
(* Close is over and one of Init's sinks cannot be closed, every one of    *)
(* Init's sinks was attempted and every failure is on stderr.              *)
C5_CloseFailureReported ==
    \A p \in Procs :
        pc[p] = "close_unlock" =>
            LET h == initArgs[call[p].l.addr]
            IN (\E i \in 1..4 : CloseErr(h[i]) # NIL) =>
                  /\ \A i \in 1..4 : h[i] \in Range(call[p].closed)
                  /\ \A i \in 1..4 :
                        CloseErr(h[i]) # NIL =>
                            CloseReport(h[i], CloseErr(h[i])) \in Range(stderr)

(* C6: in every sink the lines stand in the order in which their calls     *)
(* acquired the lock, and so the lines of one goroutine in the order of    *)
(* its calls.                                                              *)
C6_AcquisitionOrder ==
    \A w \in Sinks : \A i, j \in 1..Len(sinks[w]) :
        (i < j /\ i % 2 = 1 /\ j % 2 = 1) =>
            /\ <<sinks[w][i].p, sinks[w][i].k>> \in Range(acq)
            /\ <<sinks[w][j].p, sinks[w][j].k>> \in Range(acq)
            /\ AcqPos(sinks[w][i].p, sinks[w][i].k)
                 < AcqPos(sinks[w][j].p, sinks[w][j].k)
            /\ sinks[w][i].p = sinks[w][j].p => sinks[w][i].k < sinks[w][j].k

(* One buffer for all four severities; Info("a") then Warning("b") by one  *)
(* goroutine: two lines, INFO first, WARNING second.                       *)
C6_Witness ==
    \E p \in Procs :
        /\ initArgs = << <<"w1", "w1", "w1", "w1">> >>
        /\ pc[p] = "idle"
        /\ Len(sinks["w1"]) = 4
        /\ \A i \in 1..4 : sinks["w1"][i].p = p
        /\ sinks["w1"][1].data \o sinks["w1"][2].data
             = <<"INFO: ", flags, "a", "\n">>
        /\ sinks["w1"][3].data \o sinks["w1"][4].data
             = <<"WARNING: ", flags, "b", "\n">>

(* C7: the last Init wins: every chunk a logging call writes is in the     *)
(* sink that the latest Init before the call bound to the call's severity. *)
C7_LastInitWins ==
    \A w \in Sinks : \A i \in 1..Len(sinks[w]) :
        LET c == calls[sinks[w][i].p][sinks[w][i].k]
        IN /\ c.gen >= 1
           /\ w = HandleOf(c.gen, c.s)

(* Init with four sinks, Init with one sink for all, then an Error call:   *)
(* its line is in the one sink, and the first Init's error sink is empty.  *)
C7_Witness ==
    /\ initArgs = << <<"w1", "w2", "w3", "w4">>, <<"w1", "w1", "w1", "w1">> >>
    /\ \E p \in Procs :
          /\ Len(calls[p]) = 1
          /\ calls[p][1].s = sError
          /\ ChunksOf("w1", p, 1) = {1, 2}
    /\ sinks["w3"] = <<>>

(* C8: WrapError(msg).Error() is msg, and Return(e).Error() is e.Error();  *)
(* the stack trace is no part of the message.                              *)
C8_ErrorIsMessage ==
    /\ shown.by.op = "WrapError" => shown.msg = shown.by.arg.msg
    /\ shown.by.op = "Return" =>
          shown.msg = (IF shown.by.arg.kind = "plain" THEN shown.by.arg.msg
                       ELSE IF shown.by.arg.kind = "CustomError"
                         THEN shown.by.arg.Message
                       ELSE shown.by.arg.CustomError.Message)
    /\ \A st \in Stacks : st \notin Range(shown.msg)

(* Return applied to an error made by WrapError("oom"), then Error(). *)
C8_Witness ==
    /\ shown.by.op = "Return"
    /\ shown.by.arg.kind = "CustomError"
    /\ shown.of.kind = "ErrorStruct"
    /\ shown.of.CustomError.StackTrace \in Stacks
    /\ shown.msg = <<"o", "o", "m">>

(* C9 as stated: every caller that has entered a logging function, Close   *)
(* or Fatal eventually completes its call: it returns, or, in Fatal, the   *)
(* process exits (a crash on a nil logger set aside).                      *)
C9_EveryCallerCompletes ==
    \A p \in Procs :
        Active(p) ~> \/ pc[p] \in {"idle", "exited"}
                     \/ process.state = "crashed"
                     \/ IsFatal(call[p].fn) /\ process.state = "exited"

(* C9 amended: the lock is held exactly inside the critical sections, so   *)
(* nobody takes it twice or returns with it; and every caller eventually   *)
(* completes its call unless the process ends first.                       *)
C9_NoDeadlock ==
    /\ [](\A p \in Procs : InCritical(p) <=> logLock = p)
    /\ \A p \in Procs :
          Active(p) ~> (pc[p] = "idle" \/ process.state # "running")

(* A Fatal call waits for its second acquisition of the lock while         *)
(* another goroutine holds it.                                             *)
C9_Witness ==
    \E p, q \in Procs :
        /\ pc[p] = "close_lock"
        /\ IsFatal(call[p].fn)
        /\ logLock = q
        /\ q # p

(* C10: between the write of Fatal and its closing sequence the goroutine  *)
(* does not hold the lock, although its fatal line is written.             *)
C10_LockFreeBetween ==
    \A p \in Procs :
        (IsFatal(call[p].fn) /\ pc[p] \in {"fatal_close", "close_lock"}) =>
            /\ logLock # p
            /\ call[p].events = <<"write">>
            /\ Written(p, call[p].k)

(* A Fatal call has written its line and has not begun its closing         *)
(* sequence; another goroutine then took the lock, wrote its line after    *)
(* the fatal line into the same sink and returned.                         *)
C10_Witness ==
    \E p, q \in Procs :
        /\ p # q
        /\ IsFatal(call[p].fn)
        /\ pc[p] = "close_lock"
        /\ pc[q] = "idle"
        /\ Len(acq) = 2
        /\ acq[1] = <<p, call[p].k>>
        /\ acq[2][1] = q
        /\ \E w \in Sinks :
              /\ Len(sinks[w]) = 4
              /\ sinks[w][2].p = p
              /\ sinks[w][3].p = q
              /\ sinks[w][4].p = q

====
